---------------------------- MODULE Spec2Model ----------------------------
(***************************************************************************)
(* Model of the notebook "A Year in (Code) Review": a data generator       *)
(* (generateJournalNames, generateYears, generateData) and four functions  *)
(* that count (journal, year) pairs per year: generateDictInefficient,     *)
(* generateDictEfficient1, generateDictEfficient2 (with getUpdateValue)    *)
(* and generateDictEfficientFor.                                           *)
(*                                                                         *)
(* Python values are modelled as follows.  A str is a sequence of          *)
(* one-character strings, a list is a sequence, a tuple (journal, year) is *)
(* a 2-tuple (Python's pair[1] is index 2 here), a dict is a function      *)
(* whose DOMAIN is its key set.  Python and numpy integers are unbounded   *)
(* or 64 bits wide; no count here comes near 2^63, so they are Int.        *)
(***************************************************************************)
EXTENDS Integers, Sequences, FiniteSets, TLC

(***************************************************************************)
(* Bounds of the model.                                                    *)
(***************************************************************************)
\* Records generated (or supplied) over one run of the notebook, all calls
\* together.
MaxRecords == 2
\* Calls of the four functions in one run.
MaxCalls == 2

(***************************************************************************)
(* Literals of the program.                                                *)
(***************************************************************************)
\* range(2000, 2018+1), range(2000, 2018), range(2000, 2019): first year
FirstYear == 2000
\* range(2000, 2018+1): the 2018 of the aggregators' key range
LastYear == 2018
\* np.random.choice(range(2000, 2018), n): exclusive stop of generated years
GenStop == 2018
\* all_years = [i for i in range(2000, 2019)]: exclusive stop
AllYearsStop == 2019
\* random.choice('ABCD') for _ in range(3): letters per journal name
NameLen == 3
\* random.choice('ABCD')
Letters == <<"A", "B", "C", "D">>

(***************************************************************************)
(* Python built-ins used by the program.                                   *)
(***************************************************************************)
\* a range that includes its stop: a, a+1, ..., b
rangeInclusive(a, b) == a .. b

\* range(a, b): a, a+1, ..., b-1
range(a, b) == a .. (b - 1)

Min(a, b) == IF a <= b THEN a ELSE b

\* int(x) on a value that already is an integer (int or numpy.int64, the
\* only year values this program builds) is that integer.
int(x) == x

\* ''.join(parts): the concatenation of the strings in parts
RECURSIVE join(_)
join(parts) ==
    IF parts = <<>> THEN <<>> ELSE Head(parts) \o join(Tail(parts))

\* zip(a, b): pairs up to the shorter of the two lists
zip(a, b) == [i \in 1 .. Min(Len(a), Len(b)) |-> <<a[i], b[i]>>]

\* a count that stops at the first element that is not y
RECURSIVE countLeading(_, _)
countLeading(lst, y) ==
    IF lst = <<>> THEN 0
    ELSE IF Head(lst) = y THEN 1 + countLeading(Tail(lst), y) ELSE 0

\* a count that stops at the first match ("y in lst" in place of lst.count(y))
RECURSIVE countFirst(_, _)
countFirst(lst, y) ==
    IF lst = <<>> THEN 0
    ELSE IF Head(lst) = y THEN 1 ELSE countFirst(Tail(lst), y)

\* list.count(y): one scan of the list
RECURSIVE count(_, _)
count(lst, y) ==
    IF lst = <<>> THEN 0
    ELSE (IF Head(lst) = y THEN 1 ELSE 0) + count(Tail(lst), y)

\* {} and defaultdict(lambda:0) when created
EmptyDict == [k \in {} |-> 0]

\* sum(d.values())
RECURSIVE SumValues(_)
SumValues(d) ==
    IF DOMAIN d = {} THEN 0
    ELSE LET k == CHOOSE x \in DOMAIN d : TRUE
         IN d[k] + SumValues([x \in DOMAIN d \ {k} |-> d[x]])

\* a lookup that inserts nothing (a plain d.get(k, 0))
GetItemNoInsert(d, k) == d

\* the defaultdict created anew at the lookup ("yearDict = defaultdict(...)"
\* moved into the loop): only the key looked up is left, with value 0
DefaultDictRecreated(d, k) == (k :> 0)

\* d[k] on a defaultdict(lambda:1): a missing key is inserted with value 1
DefaultDictFactoryOne(d, k) == IF k \in DOMAIN d THEN d ELSE d @@ (k :> 1)

\* d[k] on a defaultdict(lambda:0): a missing key is inserted with the
\* factory's value 0; the dict after the lookup
DefaultDictGetItem(d, k) == IF k \in DOMAIN d THEN d ELSE d @@ (k :> 0)

\* d[k] on a plain dict raises KeyError when k is not a key
RaisesKeyError(d, k) == k \notin DOMAIN d

\* "d = u" in place of d.update(u): only the entries of u are left
DictReplace(d, u) == u

\* d.update(u): entries of u are set in d
DictUpdate(d, u) ==
    [k \in DOMAIN d \cup DOMAIN u |-> IF k \in DOMAIN u THEN u[k] ELSE d[k]]

\* {y: 0 for y in range(2000, 2018+1)}
InitDict == [y \in range(FirstYear, LastYear + 1) |-> 0]

(***************************************************************************)
(* The data generator.  Random draws are nondeterministic choices; each    *)
(* generator is the set of lists it can return.                            *)
(***************************************************************************)
\* the lowest w and the highest w elements of a set of integers
Extremes(S, w) ==
    {x \in S : Cardinality({z \in S : z < x}) < w
               \/ Cardinality({z \in S : z > x}) < w}

\* position of a one-letter string in 'ABCD', from 0
LetterIndex(c) == (CHOOSE i \in 1 .. Len(Letters) : Letters[i] = c[1]) - 1

\* a name read as a number in base len('ABCD')
RECURSIVE NameIndex(_)
NameIndex(name) ==
    IF name = <<>> THEN 0
    ELSE NameIndex(SubSeq(name, 1, Len(name) - 1)) * Len(Letters)
         + LetterIndex(<<name[Len(name)]>>)

\* random.choice('ABCD'): any one-letter string of the alphabet
RandomLetter == {<<Letters[i]>> : i \in 1 .. Len(Letters)}

\* ''.join(random.choice('ABCD') for _ in range(3)): every name the
\* expression can give
AllNames == {join(w) : w \in [1 .. NameLen -> RandomLetter]}

\* the names explored: the first and the last of AllNames in alphabetical
\* order ('AAA' and 'DDD'); names play no part in the counting
DrawnNames ==
    {nm \in AllNames :
        NameIndex(nm) \in Extremes(0 .. (Cardinality(AllNames) - 1), 1)}

\* range(2000, 2018+1) as the generator's range: 2018 can be drawn
DrawnYearsInclusive == Extremes(range(FirstYear, GenStop + 1), 1)

\* np.random.choice(range(2000, 2018), n): the years explored are the
\* lowest and the highest of the range (2000 and 2017); the functions
\* treat every year of the range alike
DrawnYears == Extremes(range(FirstYear, GenStop), 1)

generateJournalNames(n) == [1 .. n -> DrawnNames]

\* a generator that also refuses the size 0
generateYearsRaisesOnZero(n) == n <= 0

\* a generator that takes a negative size for 0, as range(n) does
generateYearsNeverRaises(n) == FALSE

\* np.random.choice(a, n) raises ValueError for a negative size n
generateYearsRaises(n) == n < 0

\* one year too few: np.random.choice(range(2000, 2018), n - 1)
generateYearsShort(n) == [1 .. (n - 1) -> DrawnYears]

\* years drawn from range(2000, 2018+1)
generateYearsInclusive(n) == [1 .. n -> DrawnYearsInclusive]

generateYears(n) == [1 .. n -> DrawnYears]

generateData(n) ==
    {zip(journals, years_list) :
        journals \in generateJournalNames(n), years_list \in generateYears(n)}

(***************************************************************************)
(* The state of a run of the notebook.                                     *)
(***************************************************************************)
VARIABLES
    pc,            \* where the interpreter is: "idle", inside a call, "done"
                   \* (a call has just returned), "error" (a call has raised)
    fn,            \* the function called last
    n,             \* its argument
    journal_year,  \* the records of that call, as generateData produced them
    yearDict,      \* the table the running call is building
    year,          \* loop variable of generateDictInefficient's outer loop
    idx,           \* position of generateDictInefficient's inner loop in
                   \* the list journal_year, from 1
    data_years,    \* generateDictEfficient1's list of years
    update_dict,   \* the dict getUpdateValue returned, not yet applied
    returned,      \* the tables returned so far, oldest first
    err,           \* the exception the last call raised, "" for none
    ncalls,        \* calls made so far
    generated,     \* records generated so far, all calls together
    consumed,      \* pairs already taken from the zip object journal_year
                   \* is bound to; generateDictInefficient binds a list,
                   \* which every loop reads from its start: always 0 there
    reads          \* reads[i]: how often the loops of the call have visited
                   \* record i

vars == <<pc, fn, n, journal_year, yearDict, year, idx, data_years,
          update_dict, returned, err, ncalls, generated, consumed, reads>>

Inefficient == "generateDictInefficient"
Efficient1 == "generateDictEfficient1"
Efficient2 == "generateDictEfficient2"
EfficientFor == "generateDictEfficientFor"
Functions == {Inefficient, Efficient1, Efficient2, EfficientFor}

\* the notebook before its first call
Init ==
    /\ pc = "idle"
    /\ fn = ""
    /\ n = 0
    /\ journal_year = <<>>
    /\ yearDict = EmptyDict
    /\ year = FirstYear
    /\ idx = 1
    /\ data_years = <<>>
    /\ update_dict = EmptyDict
    /\ returned = <<>>
    /\ err = ""
    /\ ncalls = 0
    /\ generated = 0
    /\ consumed = 0
    /\ reads = <<>>

\* the locals of a call are dropped when it returns or raises
DropLocals ==
    /\ yearDict' = EmptyDict
    /\ year' = FirstYear
    /\ idx' = 1
    /\ data_years' = <<>>
    /\ update_dict' = EmptyDict

\* an exception leaves the call: no table is returned
\* (the raising step says what it took from journal_year)
Raise(e) ==
    /\ pc' = "error"
    /\ err' = e
    /\ DropLocals
    /\ UNCHANGED <<fn, n, journal_year, returned, ncalls, generated>>

\* between calls: nothing is running
Between == pc \in {"idle", "done", "error"}

(***************************************************************************)
(* Entering a function: its straight-line code up to the first loop, with  *)
(* data the value generateData(n) gave.                                    *)
(*   generateDictInefficient   yearDict = defaultdict(lambda:0);           *)
(*                             journal_year = list(generateData(n))        *)
(*   generateDictEfficient1    journal_year = generateData(n)              *)
(*   generateDictEfficient2    yearDict = {y: 0 ...}; journal_year = ...   *)
(*   generateDictEfficientFor  journal_year = ...; yearDict = {y: 0 ...}   *)
(***************************************************************************)
FirstLoop(f) ==
    CASE f = Inefficient -> "outer"
      [] f = Efficient1 -> "e1_years"
      [] f = Efficient2 -> "e2_loop"
      [] f = EfficientFor -> "for_loop"

\* one shared table: every call goes on with the table of the call before
SharedTable(f) ==
    IF returned = <<>> THEN (IF f \in {Efficient2, EfficientFor} THEN InitDict
                                                                 ELSE EmptyDict)
    ELSE returned[Len(returned)].table

\* the table a call starts from: the dict or defaultdict it creates itself
FreshTable(f) == IF f \in {Efficient2, EfficientFor} THEN InitDict ELSE EmptyDict

\* no read of a record yet
NoReads(data) == [i \in 1 .. Len(data) |-> 0]

Begin(f, size, data) ==
    /\ pc' = FirstLoop(f)
    /\ fn' = f
    /\ n' = size
    /\ journal_year' = data
    /\ consumed' = 0
    /\ reads' = NoReads(data)
    /\ yearDict' = FreshTable(f)
    /\ year' = FirstYear
    /\ idx' = 1
    /\ data_years' = <<>>
    /\ update_dict' = EmptyDict
    /\ err' = ""
    /\ ncalls' = ncalls + 1
    /\ UNCHANGED returned

\* f(size): generateData(size) raises for a negative size (generateYears),
\* otherwise gives size records
Call(f, size) ==
    /\ Between
    /\ ncalls < MaxCalls
    /\ generated + size <= MaxRecords
    /\ IF generateYearsRaises(size)
       THEN /\ pc' = "error"
            /\ err' = "ValueError"
            /\ fn' = f
            /\ n' = size
            /\ journal_year' = <<>>
            /\ consumed' = 0
            /\ reads' = <<>>
            /\ ncalls' = ncalls + 1
            /\ DropLocals
            /\ UNCHANGED <<returned, generated>>
       ELSE /\ generated' = generated + size
            /\ \E data \in generateData(size) : Begin(f, size, data)

(***************************************************************************)
(* generateDictInefficient: for year in range(2000, 2018+1)                *)
(***************************************************************************)
\* record i has been visited k more times
Visit(r, i, k) == [r EXCEPT ![i] = @ + k]

\* "yearDict[year] = 1" in place of "yearDict[year] += 1"
DefaultDictSetOne(d, k) == DictUpdate(DefaultDictGetItem(d, k), k :> 1)

\* yearDict[year] += 1 on the defaultdict: the lookup gives the value (0,
\* inserted, when the key is missing) and the sum is stored under the key
DefaultDictIncrement(d, k) ==
    LET e == DefaultDictGetItem(d, k)
        value == IF k \in DOMAIN e THEN e[k] ELSE 0
    IN DictUpdate(e, k :> (value + 1))

\* one turn of the outer loop's header and the bare lookup yearDict[year]
OuterStep ==
    /\ pc = "outer"
    /\ IF year \in range(FirstYear, LastYear + 1)
       THEN /\ yearDict' = DefaultDictGetItem(yearDict, year)
            /\ idx' = 1
            /\ pc' = "inner"
            /\ UNCHANGED year
       ELSE /\ pc' = "return"
            /\ UNCHANGED <<yearDict, idx, year>>
    /\ UNCHANGED <<fn, n, journal_year, data_years, update_dict, returned,
                   err, ncalls, generated, consumed, reads>>

\* one turn of the inner loop: if year == int(pair[1]): yearDict[year] += 1
InnerStep ==
    /\ pc = "inner"
    /\ IF idx <= Len(journal_year)
       THEN LET pair == journal_year[idx] IN
            /\ yearDict' = IF year = int(pair[2])
                           THEN DefaultDictIncrement(yearDict, year)
                           ELSE yearDict
            /\ idx' = idx + 1
            /\ reads' = Visit(reads, idx, 1)
            /\ UNCHANGED <<pc, year>>
       ELSE /\ year' = year + 1
            /\ pc' = "outer"
            /\ UNCHANGED <<yearDict, idx, reads>>
    /\ UNCHANGED <<fn, n, journal_year, data_years, update_dict, returned,
                   err, ncalls, generated, consumed>>

(***************************************************************************)
(* generateDictEfficient1                                                  *)
(***************************************************************************)
\* what is left of a zip object over recs after k pairs have been taken
Rest(recs, k) == SubSeq(recs, k + 1, Len(recs))

\* the records without repetitions, first occurrences kept
RECURSIVE Distinct(_)
Distinct(recs) ==
    IF recs = <<>> THEN <<>>
    ELSE LET front == SubSeq(recs, 1, Len(recs) - 1)
             last == recs[Len(recs)]
         IN IF \E i \in DOMAIN front : front[i] = last
            THEN Distinct(front)
            ELSE Append(Distinct(front), last)

\* [pair[1] for pair in set(journal_year)]: equal pairs are taken once
YearsOfDistinct(recs) ==
    [i \in 1 .. Len(Distinct(recs)) |-> Distinct(recs)[i][2]]

\* [pair[1] for pair in recs]
YearsOf(recs) == [i \in 1 .. Len(recs) |-> recs[i][2]]

\* data_years = [pair[1] for pair in journal_year]: the comprehension takes
\* every pair the zip object still has and leaves it exhausted
E1Years ==
    /\ pc = "e1_years"
    /\ data_years' = YearsOf(Rest(journal_year, consumed))
    /\ consumed' = Len(journal_year)
    /\ reads' = [i \in DOMAIN reads |->
                    IF i > consumed THEN reads[i] + 1 ELSE reads[i]]
    /\ pc' = "e1_dict"
    /\ UNCHANGED <<fn, n, journal_year, yearDict, year, idx, update_dict,
                   returned, err, ncalls, generated>>

\* range(2000, 2018): the stop written without the "+1"
all_yearsShort == range(FirstYear, LastYear)

\* range(1999, 2019): the start one year early
all_yearsEarly == range(FirstYear - 1, AllYearsStop)

\* all_years = [i for i in range(2000, 2019)]
all_years == range(FirstYear, AllYearsStop)

\* yearDict = {y: data_years.count(y) for y in all_years}
E1Dict ==
    /\ pc = "e1_dict"
    /\ yearDict' = [y \in all_years |-> count(data_years, y)]
    /\ reads' = [i \in DOMAIN reads |->
                    IF i > Len(reads) - Len(data_years)
                    THEN reads[i] + Cardinality(all_years) ELSE reads[i]]
    /\ pc' = "return"
    /\ UNCHANGED <<fn, n, journal_year, year, idx, data_years, update_dict,
                   returned, err, ncalls, generated, consumed>>

(***************************************************************************)
(* generateDictEfficient2 and getUpdateValue                               *)
(***************************************************************************)
\* getUpdateValue returning a copy of the whole dictionary with the year's
\* value raised
getUpdateValueCopy(x, d) == [d EXCEPT ![x[2]] = @ + 1]

\* getUpdateValue without the lookup of the previous value: {year: 1}
getUpdateValueOne(x, d) == (x[2] :> 1)

\* getUpdateValue without the "+1": {year: value}
getUpdateValueStale(x, d) == (x[2] :> d[x[2]])

\* getUpdateValue(x, yearDict) when yearDict[x[1]] does not raise
getUpdateValue(x, d) == (x[2] :> (d[x[2]] + 1))

\* the loop reads the pair at the front and does not move on
TakeSamePair ==
    /\ consumed' = consumed
    /\ reads' = Visit(reads, consumed + 1, 1)

\* the loop takes the next pair of the zip object journal_year
Take ==
    /\ consumed' = consumed + 1
    /\ reads' = Visit(reads, consumed + 1, 1)

\* the call getUpdateValue(x, yearDict) for the next x of journal_year
E2Get ==
    /\ pc = "e2_loop"
    /\ IF consumed < Len(journal_year)
       THEN LET x == journal_year[consumed + 1] IN
            /\ Take
            /\ IF RaisesKeyError(yearDict, x[2])
               THEN Raise("KeyError")
               ELSE /\ update_dict' = getUpdateValue(x, yearDict)
                    /\ pc' = "e2_update"
                    /\ UNCHANGED <<fn, n, journal_year, yearDict, year, idx,
                                   data_years, returned, err, ncalls,
                                   generated>>
       ELSE /\ pc' = "return"
            /\ UNCHANGED <<fn, n, journal_year, yearDict, year, idx,
                           data_years, update_dict, returned, err, ncalls,
                           generated, consumed, reads>>

\* yearDict.update(...) with the dict getUpdateValue returned
E2Update ==
    /\ pc = "e2_update"
    /\ yearDict' = DictUpdate(yearDict, update_dict)
    /\ update_dict' = EmptyDict
    /\ pc' = "e2_loop"
    /\ UNCHANGED <<fn, n, journal_year, year, idx, data_years, returned, err,
                   ncalls, generated, consumed, reads>>

(***************************************************************************)
(* generateDictEfficientFor: for jy in journal_year: yearDict[jy[1]] += 1  *)
(***************************************************************************)
ForStep ==
    /\ pc = "for_loop"
    /\ IF consumed < Len(journal_year)
       THEN LET jy == journal_year[consumed + 1] IN
            /\ Take
            /\ IF RaisesKeyError(yearDict, jy[2])
               THEN Raise("KeyError")
               ELSE /\ yearDict' = [yearDict EXCEPT ![jy[2]] = @ + 1]
                    /\ UNCHANGED <<pc, fn, n, journal_year, year, idx,
                                   data_years, update_dict, returned, err,
                                   ncalls, generated>>
       ELSE /\ pc' = "return"
            /\ UNCHANGED <<fn, n, journal_year, yearDict, year, idx,
                           data_years, update_dict, returned, err, ncalls,
                           generated, consumed, reads>>

(***************************************************************************)
(* return yearDict: the caller receives the very object the function built *)
(***************************************************************************)
Return ==
    /\ pc = "return"
    /\ returned' = Append(returned, [fn |-> fn, table |-> yearDict])
    /\ pc' = "done"
    /\ DropLocals
    /\ UNCHANGED <<fn, n, journal_year, err, ncalls, generated, consumed,
                   reads>>

(***************************************************************************)
(* A later cell reads table[y] of a table returned earlier.                *)
(* generateDictInefficient returned its defaultdict; the others a dict,    *)
(* whose lookup of a missing key raises KeyError and changes nothing.      *)
(***************************************************************************)
\* the years a reader asks for: one below the key range and one in it
ReadYears == {FirstYear - 1, LastYear}

\* the table after the lookup table[y]
GetItem(f, table, y) ==
    IF f = Inefficient THEN DefaultDictGetItem(table, y) ELSE table

ReadTable(i, y) ==
    /\ Between
    /\ i \in DOMAIN returned
    /\ returned' = [returned EXCEPT
                      ![i].table = GetItem(returned[i].fn, returned[i].table, y)]
    /\ pc' = "idle"
    /\ UNCHANGED <<fn, n, journal_year, yearDict, year, idx, data_years,
                   update_dict, err, ncalls, generated, consumed, reads>>

(***************************************************************************)
(* The notebook: calls with generated data.                                *)
(***************************************************************************)
Sizes == {0 - 1} \cup (0 .. MaxRecords)

Steps ==
    \/ OuterStep
    \/ InnerStep
    \/ E1Years
    \/ E1Dict
    \/ E2Get
    \/ E2Update
    \/ ForStep
    \/ Return
    \/ \E i \in 1 .. MaxCalls, y \in ReadYears : ReadTable(i, y)

Next ==
    \/ \E f \in Functions, size \in Sizes : Call(f, size)
    \/ Steps

Spec == Init /\ [][Next]_vars

(***************************************************************************)
(* The aggregators on a given record sequence: the value of generateData   *)
(* is any sequence of (journal, year) records, years below, in and above   *)
(* the key range, and the same sequence is handed to one function after    *)
(* the other.                                                              *)
(***************************************************************************)
\* years of supplied records: one below the key range, its first and last
\* key, one above
InputYears == {FirstYear - 1, FirstYear, LastYear, LastYear + 1}

InputRecords == DrawnNames \X InputYears

InputData == UNION {[1 .. k -> InputRecords] : k \in 0 .. MaxRecords}

\* the first call is given any sequence, a later call the same one again
CallOn(f) ==
    /\ Between
    /\ ncalls < MaxCalls
    /\ \E data \in (IF ncalls = 0 THEN InputData ELSE {journal_year}) :
          Begin(f, Len(data), data)
    /\ UNCHANGED generated

StepsOn ==
    \/ OuterStep
    \/ InnerStep
    \/ E1Years
    \/ E1Dict
    \/ E2Get
    \/ E2Update
    \/ ForStep
    \/ Return

NextInput ==
    \/ \E f \in Functions : CallOn(f)
    \/ StepsOn

(***************************************************************************)
(* The notebook with its scheduling: the interpreter runs a call that has  *)
(* begun without pause, statement after statement; when the next cell is   *)
(* run is up to the user.                                                  *)
(***************************************************************************)
SpecFair == Spec /\ WF_vars(StepsOn)

SpecInput == Init /\ [][NextInput]_vars

(***************************************************************************)
(* The aggregators on one given list of three records, two of one year     *)
(* and one of another, each under a label of its own.                      *)
(***************************************************************************)
Scenario ==
    << <<<<"A", "A", "A">>, 2005>>,
       <<<<"B", "B", "B">>, 2005>>,
       <<<<"C", "C", "C">>, 2008>> >>

CallScenario(f) ==
    /\ Between
    /\ ncalls < MaxCalls
    /\ Begin(f, Len(Scenario), Scenario)
    /\ UNCHANGED generated

NextScenario ==
    \/ \E f \in Functions : CallScenario(f)
    \/ StepsOn

SpecScenario == Init /\ [][NextScenario]_vars

(***************************************************************************)
(* The aggregators on relabelled records: a function is given any record   *)
(* sequence and is then called again on a sequence with the same years at  *)
(* the same positions under other journal names.                           *)
(***************************************************************************)
\* the sequences with the years of recs under any names
Relabelled(recs) ==
    {zip(journals, YearsOf(recs)) : journals \in generateJournalNames(Len(recs))}

CallRelabelled(f) ==
    /\ Between
    /\ ncalls < MaxCalls
    /\ ncalls > 0 => f = fn
    /\ \E data \in (IF ncalls = 0 THEN InputData
                    ELSE Relabelled(journal_year) \ {journal_year}) :
          Begin(f, Len(data), data)
    /\ UNCHANGED generated

NextLabels ==
    \/ \E f \in Functions : CallRelabelled(f)
    \/ StepsOn

SpecLabels == Init /\ [][NextLabels]_vars

(***************************************************************************)
(* The aggregators on reordered records: a function is given any record    *)
(* sequence and is then called again on the same records in another order. *)
(***************************************************************************)
\* the orders of the positions 1..k
Orders(k) == {p \in [1 .. k -> 1 .. k] : \A i, j \in 1 .. k : p[i] = p[j] => i = j}

\* the sequences that hold the records of recs in any order
Reordered(recs) ==
    {[i \in 1 .. Len(recs) |-> recs[p[i]]] : p \in Orders(Len(recs))}

CallPermuted(f) ==
    /\ Between
    /\ ncalls < MaxCalls
    /\ ncalls > 0 => f = fn
    /\ \E data \in (IF ncalls = 0 THEN InputData
                    ELSE Reordered(journal_year) \ {journal_year}) :
          Begin(f, Len(data), data)
    /\ UNCHANGED generated

NextPermuted ==
    \/ \E f \in Functions : CallPermuted(f)
    \/ StepsOn

SpecPermuted == Init /\ [][NextPermuted]_vars

(***************************************************************************)
(* Aggregating again: after a call has returned, the code of the same      *)
(* function from its first loop on runs once more on the very object its   *)
(* journal_year was bound to: the list of generateDictInefficient, the zip *)
(* object generateData returned in the other three.  A zip object gives    *)
(* each pair once, so it goes on from where the call before left it.       *)
(***************************************************************************)
\* the one call that generates the data
CallFirst(f, size) ==
    /\ ncalls = 0
    /\ Call(f, size)

Again ==
    /\ pc = "done"
    /\ ncalls < MaxCalls
    /\ pc' = FirstLoop(fn)
    /\ yearDict' = FreshTable(fn)
    /\ reads' = NoReads(journal_year)
    /\ ncalls' = ncalls + 1
    /\ UNCHANGED <<fn, n, journal_year, year, idx, data_years, update_dict,
                   returned, err, generated, consumed>>

NextAgain ==
    \/ \E f \in Functions, size \in Sizes : CallFirst(f, size)
    \/ Again
    \/ StepsOn

SpecAgain == Init /\ [][NextAgain]_vars

(***************************************************************************)
(* Properties.                                                             *)
(***************************************************************************)
\* the key set of a table
Keys(d) == DOMAIN d

\* the table the last call returned
LastTable == returned[Len(returned)].table

\* a call of f has just returned
Done(f) == pc = "done" /\ fn = f

\* the key range of the tables, as the claims state it
KeyRange == 2000 .. 2018

\* number of records of a sequence whose year is y
Matching(recs, y) == Cardinality({i \in DOMAIN recs : recs[i][2] = y})

\* number of records of a sequence whose year is in the key range
InRange(recs) == Cardinality({i \in DOMAIN recs : recs[i][2] \in KeyRange})

(***************************************************************************)
(* C1.  For every N >= 0 the table generateDictInefficient(N) or           *)
(* generateDictEfficient1(N) returns has values that sum to exactly N,     *)
(* whatever records were generated.                                        *)
(***************************************************************************)
C1_RescanSumsToN ==
    (Done(Inefficient) \/ Done(Efficient1)) =>
        /\ n >= 0
        /\ SumValues(LastTable) = n

\* generateDictEfficient1(2) has returned, both records in the same year
C1_Witness ==
    /\ Done(Efficient1)
    /\ n = 2
    /\ \E y \in KeyRange : LastTable[y] = 2

(***************************************************************************)
(* C2.  For every N >= 0 the table generateDictEfficient2(N) or            *)
(* generateDictEfficientFor(N) returns has values that sum to exactly N,   *)
(* whatever records were generated.                                        *)
(***************************************************************************)
C2_SinglePassSumsToN ==
    (Done(Efficient2) \/ Done(EfficientFor)) =>
        /\ n >= 0
        /\ SumValues(LastTable) = n

\* generateDictEfficient2(2) has returned, its records in two different years
C2_Witness ==
    /\ Done(Efficient2)
    /\ n = 2
    /\ \E y, z \in KeyRange : y # z /\ LastTable[y] = 1 /\ LastTable[z] = 1

(***************************************************************************)
(* C3.  For each of the four functions and every input record sequence,    *)
(* the value of the returned table for each key Y in 2000..2018 is the     *)
(* number of input records whose year is Y.                                *)
(***************************************************************************)
C3_ValueIsCount ==
    pc = "done" =>
        \A y \in KeyRange :
            /\ y \in Keys(LastTable)
            /\ LastTable[y] = Matching(journal_year, y)

\* generateDictInefficient has returned a table that counts two records in
\* 2018, a year the generator never gives
C3_Witness ==
    /\ Done(Inefficient)
    /\ Len(journal_year) = 2
    /\ LastTable[2018] = 2

(***************************************************************************)
(* C4.  For every N >= 0 and each of the four functions, the key set of    *)
(* the returned table is exactly the 19 years 2000..2018, and a year that  *)
(* matches no record is present with value 0.                              *)
(***************************************************************************)
C4_KeysAreAllYears ==
    pc = "done" =>
        /\ Keys(LastTable) = KeyRange
        /\ Cardinality(Keys(LastTable)) = 19
        /\ \A y \in KeyRange :
              Matching(journal_year, y) = 0 => LastTable[y] = 0

\* generateDictInefficient(1) has returned: 18 of its keys match no record
C4_Witness ==
    /\ Done(Inefficient)
    /\ n = 1
    /\ Cardinality({y \in Keys(LastTable) : LastTable[y] = 0}) = 18

(***************************************************************************)
(* C5.  Given the identical input record sequence with every year in       *)
(* 2000..2018, the four functions produce tables that are equal as         *)
(* mappings.  (Under SpecInput every call of a run is given the same       *)
(* sequence.)                                                              *)
(***************************************************************************)
C5_VariantsAgree ==
    (\A k \in DOMAIN journal_year : journal_year[k][2] \in KeyRange) =>
        \A i, j \in DOMAIN returned :
            /\ Keys(returned[i].table) = Keys(returned[j].table)
            /\ \A y \in Keys(returned[i].table) :
                  returned[i].table[y] = returned[j].table[y]

\* the naive and the direct single-pass function have both returned for the
\* same two in-range records
C5_Witness ==
    /\ Len(returned) = 2
    /\ returned[1].fn = Inefficient
    /\ returned[2].fn = EfficientFor
    /\ Len(journal_year) = 2
    /\ \A k \in DOMAIN journal_year : journal_year[k][2] \in KeyRange

(***************************************************************************)
(* C6.  No function fails on a record whose year lies outside 2000..2018:  *)
(* each of the four finishes without raising an error and returns a table. *)
(***************************************************************************)
C6_NoVariantFails == pc # "error" /\ err = ""

(***************************************************************************)
(* C7.  A record whose year lies outside 2000..2018 never increments a     *)
(* bucket and never adds a key: in every table a function returns the sum  *)
(* of the values is the number of input records with a year in 2000..2018, *)
(* so it is less than N when the input holds a record of 1999 or 2019.     *)
(***************************************************************************)
C7_OutOfRangeNotCounted ==
    /\ Keys(yearDict) \subseteq KeyRange
    /\ SumValues(yearDict) <= InRange(journal_year)
    /\ pc = "done" =>
          /\ Keys(LastTable) \subseteq KeyRange
          /\ SumValues(LastTable) = InRange(journal_year)
          /\ (\E k \in DOMAIN journal_year : journal_year[k][2] \in {1999, 2019})
                => SumValues(LastTable) < Len(journal_year)

\* generateDictEfficient1 has returned for one record of 1999 and one of 2019
C7_Witness ==
    /\ Done(Efficient1)
    /\ Len(journal_year) = 2
    /\ journal_year[1][2] = 1999
    /\ journal_year[2][2] = 2019
    /\ SumValues(LastTable) = 0

(***************************************************************************)
(* C8.  For every N >= 0, generateData(N) yields exactly N (label, year)   *)
(* pairs: generateJournalNames(N) and generateYears(N) both have length N, *)
(* so zip drops no element.                                                *)
(***************************************************************************)
C8_GeneratesNPairs ==
    /\ (fn # "" /\ n >= 0) => Len(journal_year) = n
    /\ n >= 0 =>
          /\ \A journals \in generateJournalNames(n) : Len(journals) = n
          /\ \A years_list \in generateYears(n) : Len(years_list) = n

\* a call with N = 2 is running on its two records
C8_Witness ==
    /\ pc = "for_loop"
    /\ n = 2
    /\ Len(journal_year) = 2

(***************************************************************************)
(* C9.  Every record the generator produces has a label of exactly 3       *)
(* characters, each one of A, B, C, D, and an integer year in 2000..2017;  *)
(* hence every generated year is a key of the functions' tables.           *)
(***************************************************************************)
C9_GeneratedRecords ==
    \A k \in DOMAIN journal_year :
        LET label == journal_year[k][1]
            yr == journal_year[k][2]
        IN /\ Len(label) = 3
           /\ \A c \in DOMAIN label : label[c] \in {"A", "B", "C", "D"}
           /\ yr \in Int
           /\ yr \in 2000 .. 2017
           /\ yr \in Keys(InitDict)
           /\ yr \in all_years
           /\ pc = "done" => yr \in Keys(LastTable)

\* a generated record with label DDD and year 2017 has been counted
C9_Witness ==
    /\ pc = "done"
    /\ \E k \in DOMAIN journal_year :
          /\ journal_year[k][1] = <<"D", "D", "D">>
          /\ journal_year[k][2] = 2017
    /\ LastTable[2017] >= 1

(***************************************************************************)
(* C10.  After a function has returned a table, the table is never changed *)
(* again: neither a later call nor reading the table's value for any year, *)
(* in the key range or not, changes its key set or any of its values.      *)
(***************************************************************************)
C10_ReturnedTableNeverChanges ==
    [][\A i \in DOMAIN returned :
          /\ Keys(returned'[i].table) = Keys(returned[i].table)
          /\ \A y \in Keys(returned[i].table) :
                returned'[i].table[y] = returned[i].table[y]]_vars

(***************************************************************************)
(* C11.  Aggregating the same input a second time gives a table identical  *)
(* to the first, and the input is the same after an aggregation as before  *)
(* it: the object journal_year is bound to still gives all its pairs.      *)
(* Fails for the three functions that iterate the zip object directly.     *)
(***************************************************************************)
C11_ReaggregationIdentical ==
    /\ \A i, j \in DOMAIN returned : returned[i].table = returned[j].table
    /\ pc = "done" => Rest(journal_year, consumed) = journal_year

\* side conditions of C11: the list of generateDictInefficient is unchanged
\* and gives the same table again
C11_ListIsReusable ==
    fn = Inefficient =>
        /\ consumed = 0
        /\ \A i, j \in DOMAIN returned : returned[i].table = returned[j].table

\* an exhausted zip object: the second table is all zeros
C11_SecondTableEmpty ==
    (Len(returned) = 2 /\ fn # Inefficient) =>
        /\ SumValues(returned[1].table) = n
        /\ SumValues(returned[2].table) = 0

(***************************************************************************)
(* C12.  Calls share no state: the table a call is building holds, under   *)
(* every key, no more than the call's own records of that year, and the    *)
(* table it returns counts exactly its own records and sums to its own n,  *)
(* whatever the calls before it returned.                                  *)
(***************************************************************************)
C12_CallsShareNothing ==
    /\ \A y \in DOMAIN yearDict : yearDict[y] <= Matching(journal_year, y)
    /\ pc = "done" =>
          /\ Len(journal_year) = n
          /\ SumValues(LastTable) = n
          /\ \A y \in Keys(LastTable) : LastTable[y] = Matching(journal_year, y)

\* a second call has returned after a first call that counted a record
C12_Witness ==
    /\ pc = "done"
    /\ Len(returned) = 2
    /\ SumValues(returned[1].table) = 1
    /\ n = 1
    /\ SumValues(LastTable) = 1

\* the functions with one loop over the records
SinglePass == {Efficient2, EfficientFor}

(***************************************************************************)
(* C13.  generateDictEfficient2 and generateDictEfficientFor start their   *)
(* loop from a table with the 19 keys 2000..2018 all 0, visit no record    *)
(* twice, and have visited every record exactly once when they return.     *)
(***************************************************************************)
C13_EachRecordReadOnce ==
    fn \in SinglePass =>
        /\ \A i \in DOMAIN reads : reads[i] <= 1
        /\ (pc \in {"e2_loop", "for_loop"} /\ consumed = 0) =>
              /\ Keys(yearDict) = KeyRange
              /\ Cardinality(Keys(yearDict)) = 19
              /\ \A y \in Keys(yearDict) : yearDict[y] = 0
        /\ pc \in {"return", "done"} =>
              /\ DOMAIN reads = DOMAIN journal_year
              /\ \A i \in DOMAIN reads : reads[i] = 1

\* a single-pass call on two records has returned
C13_Witness ==
    /\ pc = "done"
    /\ fn \in SinglePass
    /\ n = 2
    /\ reads = <<1, 1>>

(***************************************************************************)
(* C14.  generateDictEfficient1 iterates through each data point only      *)
(* once: when it returns, every record has been visited exactly once.      *)
(* Fails: data_years.count(y) scans the whole list for each of the 19      *)
(* years, after the pass that built data_years.                            *)
(***************************************************************************)
C14_ComprehensionReadsOnce ==
    Done(Efficient1) => \A i \in DOMAIN reads : reads[i] = 1

\* what the code does: one pass to build data_years and one scan per year
C14_VisitsPerRecord ==
    Done(Efficient1) =>
        \A i \in DOMAIN reads : reads[i] = 1 + Cardinality(all_years)

(***************************************************************************)
(* C15.  generateDictInefficient loops through all pairs 18 times each:    *)
(* when it returns, every record has been visited 18 times, once for each  *)
(* of the 18 year values of the outer loop.                                *)
(* Fails: range(2000, 2018+1) has 19 values.                               *)
(***************************************************************************)
C15_EighteenScans ==
    Done(Inefficient) =>
        /\ \A i \in DOMAIN reads : reads[i] = 18
        /\ Cardinality(Keys(LastTable)) = 18

\* what the code does: one scan for each of the 19 years
C15_ScansPerRecord ==
    Done(Inefficient) =>
        /\ \A i \in DOMAIN reads : reads[i] = 19
        /\ Cardinality(Keys(LastTable)) = 19

\* the keys of the last table other than the two years of the scenario
ScenarioOthers == Keys(LastTable) \ {2005, 2008}

(***************************************************************************)
(* C16.  For the input [("AAA",2005),("BBB",2005),("CCC",2008)] every      *)
(* function returns a table that sums to 3 with table[2005] = 2 and        *)
(* table[2008] = 1; the claim as stated: the keys other than 2005 and      *)
(* 2008 number 16 and all have value 0.                                    *)
(***************************************************************************)
C16_SixteenOtherKeys ==
    pc = "done" =>
        /\ Keys(LastTable) = KeyRange
        /\ SumValues(LastTable) = 3
        /\ LastTable[2005] = 2
        /\ LastTable[2008] = 1
        /\ \A y \in ScenarioOthers : LastTable[y] = 0
        /\ Cardinality(ScenarioOthers) = 16

(***************************************************************************)
(* C16, amended.  For that input every function returns a table over the   *)
(* 19 keys 2000..2018 that sums to 3 with table[2005] = 2 and              *)
(* table[2008] = 1, in which the keys other than 2005 and 2008 number 17   *)
(* and all have value 0.                                                   *)
(***************************************************************************)
C16_SeventeenOtherKeys ==
    pc = "done" =>
        /\ Keys(LastTable) = KeyRange
        /\ SumValues(LastTable) = 3
        /\ LastTable[2005] = 2
        /\ LastTable[2008] = 1
        /\ \A y \in ScenarioOthers : LastTable[y] = 0
        /\ Cardinality(ScenarioOthers) = 17

\* every function has returned its table for the three records
C16_Witness ==
    /\ pc = "done"
    /\ journal_year = Scenario
    /\ Len(returned) = 2
    /\ returned[1].fn # returned[2].fn
    /\ LastTable[2005] = 2
    /\ LastTable[2008] = 1

(***************************************************************************)
(* C17.  A call with n = 0 raises nothing and returns a table with all 19  *)
(* keys 2000..2018, every value 0.                                         *)
(***************************************************************************)
C17_EmptyInput ==
    (fn \in Functions /\ n = 0) =>
        /\ pc # "error"
        /\ err = ""
        /\ pc = "done" =>
              /\ Keys(LastTable) = KeyRange
              /\ Cardinality(Keys(LastTable)) = 19
              /\ \A y \in Keys(LastTable) : LastTable[y] = 0

\* two different functions have returned, both called with n = 0
C17_Witness ==
    /\ pc = "done"
    /\ n = 0
    /\ generated = 0
    /\ Len(returned) = 2
    /\ returned[1].fn # returned[2].fn

(***************************************************************************)
(* C18.  A call with n < 0 ends in an error before any bucket is           *)
(* incremented and returns no table: it raises ValueError while its data   *)
(* is generated, no loop of the function runs, and the tables returned so  *)
(* far are fewer than the calls made.                                      *)
(***************************************************************************)
C18_NegativeRejected ==
    n < 0 =>
        /\ pc \in {"error", "idle"}
        /\ err = "ValueError"
        /\ yearDict = EmptyDict
        /\ reads = <<>>
        /\ Len(returned) < ncalls

\* a call with a negative n has raised after an earlier call returned
C18_Witness ==
    /\ pc = "error"
    /\ n < 0
    /\ err = "ValueError"
    /\ returned # <<>>

(***************************************************************************)
(* C19.  The label of a record has no effect on the table: the tables a    *)
(* function returns for record sequences that have the same years at the   *)
(* same positions under different labels are identical.                    *)
(***************************************************************************)
C19_LabelsDoNotMatter ==
    \A i, j \in DOMAIN returned :
        returned[i].fn = returned[j].fn =>
            returned[i].table = returned[j].table

\* a function has returned for two records and again for the same years
\* under other labels
C19_Witness ==
    /\ pc = "done"
    /\ ncalls = 2
    /\ Len(returned) = 2
    /\ returned[1].fn = returned[2].fn
    /\ n = 2
    /\ journal_year[1][1] # journal_year[2][1]
    /\ SumValues(LastTable) = 2

\* the pair the loop of generateDictEfficient2 took last
TakenPair == journal_year[consumed]

\* what getUpdateValue has returned, before update applies it
C20_HelperResult ==
    pc = "e2_update" =>
        /\ Cardinality(DOMAIN update_dict) = 1
        /\ DOMAIN update_dict = {TakenPair[2]}
        /\ update_dict[TakenPair[2]] = yearDict[TakenPair[2]] + 1

\* what a step of generateDictEfficient2's loop does to the table
C20_HelperFrame ==
    /\ pc = "e2_loop" => yearDict' = yearDict
    /\ pc = "e2_update" =>
          /\ DOMAIN yearDict' = DOMAIN yearDict
          /\ yearDict'[TakenPair[2]] = yearDict[TakenPair[2]] + 1
          /\ \A y \in DOMAIN yearDict \ {TakenPair[2]} :
                yearDict'[y] = yearDict[y]

(***************************************************************************)
(* C20.  getUpdateValue(x, yearDict) returns a dict with exactly one       *)
(* entry, the year of x with yearDict's current value for it plus 1, and   *)
(* leaves yearDict as it is; in generateDictEfficient2 the table changes   *)
(* only when update applies the returned dict, and then only the value of  *)
(* that one year changes.                                                  *)
(***************************************************************************)
C20_OneEntryOneChange == [] C20_HelperResult /\ [][C20_HelperFrame]_vars

\* the helper has returned {2000: 2} for the second record of year 2000
C20_Witness ==
    /\ pc = "e2_update"
    /\ consumed = 2
    /\ yearDict[FirstYear] = 1
    /\ update_dict = (FirstYear :> 2)

(***************************************************************************)
(* C21.  In generateDictInefficient, once the outer iteration for year y   *)
(* has completed the key set is exactly 2000..y, the value of every key    *)
(* <= y is its final count (the number of records of that year), and a     *)
(* year that matches no record is in the table with value 0.  Inside the   *)
(* iteration for y the bare lookup has already added the key y.            *)
(***************************************************************************)
C21_OuterLoopInvariant ==
    (fn = Inefficient /\ pc \in {"outer", "inner", "return"}) =>
        /\ pc \in {"outer", "return"} => Keys(yearDict) = 2000 .. (year - 1)
        /\ pc = "inner" => Keys(yearDict) = 2000 .. year
        /\ \A k \in Keys(yearDict) :
              k < year => yearDict[k] = Matching(journal_year, k)
        /\ \A k \in Keys(yearDict) :
              Matching(journal_year, k) = 0 => yearDict[k] = 0

\* the iterations up to 2017 have completed for two records, one of them of
\* the year 2000: 2000 has its count and 2001 is present with 0
C21_Witness ==
    /\ fn = Inefficient
    /\ pc = "outer"
    /\ year = LastYear
    /\ n = 2
    /\ Keys(yearDict) = 2000 .. 2017
    /\ yearDict[2000] = 1
    /\ yearDict[2001] = 0

\* number of records a single-pass loop has processed: a pair taken by
\* generateDictEfficient2 is processed once update has applied its dict
Processed == IF pc = "e2_update" THEN consumed - 1 ELSE consumed

\* every year of the records is a key of the tables
AllInRange(recs) == \A i \in DOMAIN recs : recs[i][2] \in KeyRange

(***************************************************************************)
(* C22.  Loop invariant of generateDictEfficient2 and                      *)
(* generateDictEfficientFor on records whose years are all in 2000..2018:  *)
(* after k records have been processed the values of the table sum to k,   *)
(* every value is a non-negative integer (the number of processed records  *)
(* of that year) and the key set is exactly 2000..2018.                    *)
(***************************************************************************)
C22_SinglePassLoopInvariant ==
    (/\ fn \in SinglePass
     /\ pc \in {"e2_loop", "e2_update", "for_loop", "return"}
     /\ AllInRange(journal_year)) =>
        /\ Keys(yearDict) = KeyRange
        /\ \A y \in Keys(yearDict) : yearDict[y] \in Nat
        /\ \A y \in Keys(yearDict) :
              yearDict[y] = Matching(SubSeq(journal_year, 1, Processed), y)
        /\ SumValues(yearDict) = Processed

\* generateDictEfficient2 has processed the first of two records
C22_Witness ==
    /\ fn = Efficient2
    /\ pc = "e2_loop"
    /\ n = 2
    /\ AllInRange(journal_year)
    /\ consumed = 1
    /\ SumValues(yearDict) = 1

\* the functions that update their table step by step
Stepwise == {Inefficient, Efficient2, EfficientFor}

\* where a call is while its loops run
InLoop == {"outer", "inner", "e2_loop", "e2_update", "for_loop"}

\* the count a table holds for year y: a year that is not a key has none
BucketValue(d, y) == IF y \in DOMAIN d THEN d[y] ELSE 0

\* the buckets whose value a step changes
ChangedBuckets ==
    {y \in DOMAIN yearDict \cup DOMAIN yearDict' :
        BucketValue(yearDict', y) # BucketValue(yearDict, y)}

\* a step of a running loop that stays in the call
C23_LoopStep ==
    /\ fn \in Stepwise
    /\ pc \in InLoop
    /\ pc' \in InLoop \cup {"return"}

(***************************************************************************)
(* C23.  In generateDictInefficient, generateDictEfficient2 and            *)
(* generateDictEfficientFor every step of the loops changes at most one    *)
(* bucket, raises it by exactly 1, and removes no key: no bucket's value   *)
(* decreases or is reset between initialization and return.                *)
(***************************************************************************)
C23_StepRaisesOneBucket ==
    [][C23_LoopStep =>
          /\ Cardinality(ChangedBuckets) <= 1
          /\ \A y \in ChangedBuckets :
                BucketValue(yearDict', y) = BucketValue(yearDict, y) + 1
          /\ DOMAIN yearDict \subseteq DOMAIN yearDict']_vars

\* the inner loop of generateDictInefficient has raised the bucket of its
\* year twice, one record after the other
C23_Witness ==
    /\ fn = Inefficient
    /\ pc = "inner"
    /\ idx = 3
    /\ yearDict[year] = 2

\* the sum of the values a table holds under the keys in S
SumOver(d, S) == SumValues([y \in S |-> d[y]])

(***************************************************************************)
(* C24.  The table a function returns for generated data has the key 2018  *)
(* with value 0, and the whole count n is spread over the 18 keys          *)
(* 2000..2017.                                                             *)
(***************************************************************************)
C24_LastKeyStaysZero ==
    pc = "done" =>
        /\ 2018 \in Keys(LastTable)
        /\ LastTable[2018] = 0
        /\ (2000 .. 2017) \subseteq Keys(LastTable)
        /\ Cardinality(2000 .. 2017) = 18
        /\ SumOver(LastTable, 2000 .. 2017) = n

\* a call has returned for two generated records of the first and the last
\* year the generator draws
C24_Witness ==
    /\ pc = "done"
    /\ n = 2
    /\ LastTable[2000] = 1
    /\ LastTable[2017] = 1
    /\ LastTable[2018] = 0

(***************************************************************************)
(* C25.  The table does not depend on the order of the records: for        *)
(* records whose years are all in 2000..2018, a function called on the     *)
(* records in one order and on the same records in another order returns   *)
(* the same table both times, and returns a table every time.              *)
(***************************************************************************)
C25_OrderDoesNotMatter ==
    AllInRange(journal_year) =>
        /\ pc # "error"
        /\ \A i, j \in DOMAIN returned :
              /\ returned[i].fn = returned[j].fn
              /\ returned[i].table = returned[j].table

\* a function has returned for two records of different years and again
\* for the two records in the other order
C25_Witness ==
    /\ pc = "done"
    /\ ncalls = 2
    /\ Len(returned) = 2
    /\ n = 2
    /\ AllInRange(journal_year)
    /\ journal_year[1][2] # journal_year[2][2]
    /\ SumValues(LastTable) = 2

\* a call is running
Running == ~Between

\* generateDictInefficient: every completed outer iteration has made one
\* inner step for each of the n records, and there are 19 of them at the end;
\* the single-pass functions have made n steps, one for each record
C26_StepCounts ==
    /\ (fn = Inefficient /\ pc = "outer") =>
          \A i \in DOMAIN reads : reads[i] = year - FirstYear
    /\ (fn = Inefficient /\ pc = "inner") =>
          \A i \in DOMAIN reads :
              reads[i] = (year - FirstYear) + (IF i < idx THEN 1 ELSE 0)
    /\ (fn = Inefficient /\ pc = "return") =>
          /\ year - FirstYear = 19
          /\ Len(reads) = n
          /\ \A i \in DOMAIN reads : reads[i] = 19
    /\ (fn \in SinglePass /\ pc = "return") =>
          /\ consumed = n
          /\ Len(reads) = n
          /\ SumValues(reads) = n
          /\ \A i \in DOMAIN reads : reads[i] = 1

(***************************************************************************)
(* C26.  For every n >= 0 each of the four functions terminates and        *)
(* returns its table: a call that has begun reaches its return,            *)
(* generateDictInefficient after exactly 19 outer iterations of n inner    *)
(* steps each, generateDictEfficient2 and generateDictEfficientFor after   *)
(* exactly n update steps.                                                 *)
(***************************************************************************)
C26_TerminatesAfterCountedSteps ==
    /\ [] C26_StepCounts
    /\ Running ~> (pc = "done")

\* generateDictInefficient has returned for two records after 19 scans
C26_Witness ==
    /\ Done(Inefficient)
    /\ n = 2
    /\ reads = <<19, 19>>

=============================================================================
